---- MODULE Spec2Model ----
(***************************************************************************)
(* ACS 5-year extraction pipeline: the chunked fetch / left-join merge /   *)
(* coefficient-of-variation / overwrite-write loop of                      *)
(*   Additional files/acs5_2022_extraction_all_geos.py   (script "acs5")   *)
(*   ACS Notebook-Bronze Layer ETL.py                    (script "nb")     *)
(* and the SE / CV computation of  # --- Environment Setup ---.py.         *)
(*                                                                         *)
(* Python strings are modelled as sequences of one-character strings, so   *)
(* that zfill, str.replace and the regular expression act on characters.   *)
(***************************************************************************)
EXTENDS Integers, Sequences, FiniteSets, TLC

\* ------------------------------------------------------------------------
\* Program constants
\* ------------------------------------------------------------------------
MAX_VARS_PER_CALL == 50
RETRY_LIMIT == 3
WAIT_BETWEEN_RETRIES == 2

geographies == <<"tract", "zcta", "county", "state">>

\* ------------------------------------------------------------------------
\* Text helpers
\* ------------------------------------------------------------------------
UpperSeq == <<"A","B","C","D","E","F","G","H","I","J","K","L","M",
              "N","O","P","Q","R","S","T","U","V","W","X","Y","Z">>
LowerSeq == <<"a","b","c","d","e","f","g","h","i","j","k","l","m",
              "n","o","p","q","r","s","t","u","v","w","x","y","z">>
DigitSeq == <<"0","1","2","3","4","5","6","7","8","9">>

UpperLetters == {UpperSeq[k] : k \in 1..26}
DigitChars == {DigitSeq[k] : k \in 1..10}

Min(a, b) == IF a < b THEN a ELSE b

LowerCh(c) == IF c \in UpperLetters
              THEN LowerSeq[CHOOSE k \in 1..26 : UpperSeq[k] = c] ELSE c
UpperCh(c) == IF \E k \in 1..26 : LowerSeq[k] = c
              THEN UpperSeq[CHOOSE k \in 1..26 : LowerSeq[k] = c] ELSE c
StrLower(s) == [k \in 1..Len(s) |-> LowerCh(s[k])]
StrUpper(s) == [k \in 1..Len(s) |-> UpperCh(s[k])]

\* sub in s   /   s.startswith(sub)
StartsWith(s, sub) == Len(s) >= Len(sub) /\ SubSeq(s, 1, Len(sub)) = sub
Contains(s, sub) ==
    \E k \in 0..(Len(s) - Len(sub)) : SubSeq(s, k + 1, k + Len(sub)) = sub

Zeros(n) == [k \in 1..n |-> "0"]

\* a faulty variant of ZFill: the zeros go to the right (str.ljust(width, "0"))
ZFillRight(s, width) ==
    IF Len(s) >= width THEN s ELSE s \o Zeros(width - Len(s))

\* str.zfill(width): pads on the left, after a leading sign; never truncates
ZFill(s, width) ==
    IF Len(s) >= width THEN s
    ELSE IF Len(s) > 0 /\ s[1] \in {"+", "-"}
         THEN <<s[1]>> \o Zeros(width - Len(s)) \o Tail(s)
         ELSE Zeros(width - Len(s)) \o s

\* str.replace(old, new) for one-character old and new: every occurrence
StrReplace(s, old, new) == [k \in 1..Len(s) |-> IF s[k] = old THEN new ELSE s[k]]

\* Series.str.replace("E$", "M", regex=True): only a final E
ReplaceTrailingE(s) ==
    IF Len(s) > 0 /\ s[Len(s)] = "E"
    THEN SubSeq(s, 1, Len(s) - 1) \o <<"M">> ELSE s

AllIn(s, from, to, chars) == \A k \in from..to : s[k] \in chars

\* re.compile(r'^[A-Z]+\d+_\d+[EM]$') with Series.str.match
acs_pattern(s) ==
    \E a \in 1..Len(s) : \E b \in (a + 1)..Len(s) :
        /\ AllIn(s, 1, a, UpperLetters)
        /\ AllIn(s, a + 1, b, DigitChars)
        /\ b + 3 <= Len(s)
        /\ s[b + 1] = "_"
        /\ AllIn(s, b + 2, Len(s) - 1, DigitChars)
        /\ s[Len(s)] \in {"E", "M"}

\* the three-digit numeric id of a variable code (001, 002, ...)
NumId(n) == <<DigitSeq[((n \div 100) % 10) + 1], DigitSeq[((n \div 10) % 10) + 1],
              DigitSeq[(n % 10) + 1]>>

\* the estimate code <table>_<numeric id>E
EstCode(tbl, n) == tbl \o <<"_">> \o NumId(n) \o <<"E">>

\* ------------------------------------------------------------------------
\* Cell values.  Every cell and every index label is a record of one shape:
\*   text  : a Python str (s)             num  : a float, the rational n/d
\*   nan   : NaN / missing                inf  : +inf (n = 1) or -inf (n = -1)
\*   geom  : a geometry object of unit s  none : None
\* Floats are kept as exact reduced fractions; division by zero follows
\* numpy (x/0 = +-inf for x # 0, 0/0 = NaN).
\* ------------------------------------------------------------------------
VText(s) == [k |-> "text", n |-> 0, d |-> 1, s |-> s]
VNaN == [k |-> "nan", n |-> 0, d |-> 1, s |-> <<>>]
VInf(sign) == [k |-> "inf", n |-> sign, d |-> 1, s |-> <<>>]
VGeom(u) == [k |-> "geom", n |-> 0, d |-> 1, s |-> <<u>>]
VNone == [k |-> "none", n |-> 0, d |-> 1, s |-> <<>>]

Abs(x) == IF x < 0 THEN -x ELSE x
RECURSIVE Gcd(_, _)
Gcd(a, b) == IF b = 0 THEN a ELSE Gcd(b, a % b)

\* the float n/d, d # 0, in lowest terms with a positive denominator
VNum(n, d) ==
    LET g == Gcd(Abs(n), Abs(d))
        sg == IF d < 0 THEN -1 ELSE 1
    IN  [k |-> "num", n |-> sg * (n \div g), d |-> sg * (d \div g), s |-> <<>>]

Sign(x) == IF x < 0 THEN -1 ELSE 1

\* float division x / y of two cells (Series / Series, Series / scalar)
FDiv(x, y) ==
    IF x.k = "nan" \/ y.k = "nan" THEN VNaN
    ELSE IF x.k = "inf" /\ y.k = "inf" THEN VNaN
    ELSE IF x.k = "inf" THEN VInf(x.n * Sign(y.n))
    ELSE IF y.k = "inf" THEN VNum(0, 1)
    ELSE IF y.n = 0 THEN (IF x.n = 0 THEN VNaN ELSE VInf(Sign(x.n)))
    ELSE VNum(x.n * y.d, x.d * y.n)

\* float multiplication x * y
FMul(x, y) ==
    IF x.k = "nan" \/ y.k = "nan" THEN VNaN
    ELSE IF x.k = "inf" \/ y.k = "inf"
         THEN (IF x.n = 0 \/ y.n = 0 THEN VNaN ELSE VInf(Sign(x.n) * Sign(y.n)))
    ELSE VNum(x.n * y.n, x.d * y.d)

\* a faulty variant of Z_SCORE: the z-score of the 95% level, 1.96
Z_SCORE_95 == VNum(196, 100)

\* the literals 1.645 and 100.0
Z_SCORE == VNum(329, 200)
HUNDRED == VNum(100, 1)

RECURSIVE ParseDigits(_, _)
ParseDigits(s, acc) ==
    IF s = <<>> THEN acc
    ELSE ParseDigits(Tail(s), 10 * acc + ((CHOOSE k \in 1..10 : DigitSeq[k] = s[1]) - 1))

IsIntText(s) ==
    \/ Len(s) >= 1 /\ AllIn(s, 1, Len(s), DigitChars)
    \/ Len(s) >= 2 /\ s[1] \in {"+", "-"} /\ AllIn(s, 2, Len(s), DigitChars)

\* a faulty variant of ToNumeric: what does not parse is filled with 0
ToNumericFillZero(v) ==
    IF v.k \in {"num", "nan", "inf"} THEN v
    ELSE IF v.k = "text" /\ v.s # <<>> /\ AllIn(v.s, 1, Len(v.s), DigitChars)
         THEN VNum(ParseDigits(v.s, 0), 1)
    ELSE VNum(0, 1)

\* pd.to_numeric(x, errors="coerce") on one cell: integer text parses, a
\* number stays, everything else (other text, None, an object) becomes NaN
ToNumeric(v) ==
    IF v.k \in {"num", "nan", "inf"} THEN v
    ELSE IF v.k = "text" /\ IsIntText(v.s)
         THEN (IF v.s[1] = "-" THEN VNum(-ParseDigits(Tail(v.s), 0), 1)
               ELSE IF v.s[1] = "+" THEN VNum(ParseDigits(Tail(v.s), 0), 1)
               ELSE VNum(ParseDigits(v.s, 0), 1))
    ELSE VNaN

RECURSIVE DigitsOf(_)
DigitsOf(n) == IF n < 10 THEN <<DigitSeq[n + 1]>>
               ELSE DigitsOf(n \div 10) \o <<DigitSeq[(n % 10) + 1]>>

\* astype(str) on one cell
AsStr(v) ==
    IF v.k = "text" THEN v.s
    ELSE IF v.k = "nan" THEN <<"n","a","n">>
    ELSE IF v.k = "none" THEN <<"N","o","n","e">>
    ELSE IF v.k = "num" /\ v.d = 1
         THEN (IF v.n < 0 THEN <<"-">> \o DigitsOf(-v.n) ELSE DigitsOf(v.n))
    ELSE <<"?">>

\* ------------------------------------------------------------------------
\* DataFrames: index labels, the index's name (<<>> for an unnamed
\* RangeIndex), ordered column names, one function column -> cell per row.
\* ------------------------------------------------------------------------
COL_STATE == <<"s","t","a","t","e">>
COL_COUNTY == <<"c","o","u","n","t","y">>
COL_TRACT == <<"t","r","a","c","t">>
COL_ZIP == <<"z","i","p"," ","c","o","d","e"," ","t","a","b","u","l","a","t","i","o","n",
             " ","a","r","e","a">>
COL_ZCTA == <<"Z","C","T","A">>
COL_GEOID == <<"G","E","O","I","D">>
COL_FIPS == <<"F","I","P","S">>
COL_NAME == <<"N","A","M","E">>
COL_GEOMETRY == <<"g","e","o","m","e","t","r","y">>
SUFFIX_CV == <<"_","C","V">>
SUFFIX_SE == <<"_","S","E">>

SeqSet(q) == {q[k] : k \in 1..Len(q)}
ColSet(df) == SeqSet(df.cols)
NRows(df) == Len(df.rows)

\* df[c]: the cells of column c, by row position
ColVals(df, c) == [k \in 1..NRows(df) |-> df.rows[k][c]]

\* df[c] = vals: replaces column c, or appends it as the last column
SetCol(df, c, vals) ==
    [index |-> df.index, iname |-> df.iname,
     cols |-> IF c \in ColSet(df) THEN df.cols ELSE Append(df.cols, c),
     rows |-> [k \in 1..NRows(df) |->
                 [x \in ColSet(df) \cup {c} |-> IF x = c THEN vals[k] ELSE df.rows[k][x]]]]

\* df.drop(columns=[c])
DropCol(df, c) ==
    [index |-> df.index, iname |-> df.iname,
     cols |-> SelectSeq(df.cols, LAMBDA x : x # c),
     rows |-> [k \in 1..NRows(df) |-> [x \in ColSet(df) \ {c} |-> df.rows[k][x]]]]

\* df.set_index(c, inplace=True): the column becomes the index and is dropped
SetIndex(df, c) ==
    LET d == DropCol(df, c)
    IN  [index |-> ColVals(df, c), iname |-> c, cols |-> d.cols, rows |-> d.rows]

\* df.rename(columns={old: new}, inplace=True)
RenameCol(df, old, new) ==
    IF old = new THEN df
    ELSE [index |-> df.index, iname |-> df.iname,
          cols |-> [k \in 1..Len(df.cols) |-> IF df.cols[k] = old THEN new ELSE df.cols[k]],
          rows |-> [k \in 1..NRows(df) |->
                      [x \in (ColSet(df) \ {old}) \cup {new} |->
                          IF x = new THEN df.rows[k][old] ELSE df.rows[k][x]]]]

\* df[c] = df[c].astype(str).str.zfill(width)
ZFillCol(df, c, width) ==
    SetCol(df, c, [k \in 1..NRows(df) |-> VText(ZFill(AsStr(df.rows[k][c]), width))])

\* df[c] = df[a] + df[b] (+ df[e]): string concatenation of text columns
ConcatCol(df, c, parts) ==
    LET RECURSIVE Cat(_, _)
        Cat(k, j) == IF j > Len(parts) THEN <<>>
                     ELSE AsStr(df.rows[k][parts[j]]) \o Cat(k, j + 1)
    IN  SetCol(df, c, [k \in 1..NRows(df) |-> VText(Cat(k, 1))])

\* RangeIndex label of the row at position k (0-based)
PosLabel(k) == VNum(k, 1)

\* for col in df.columns: if col not in ("NAME", "geometry"):
\*     df[col] = pd.to_numeric(df[col], errors="coerce")
CoerceNumeric(df) ==
    [index |-> df.index, iname |-> df.iname,
     cols |-> df.cols,
     rows |-> [k \in 1..NRows(df) |->
                 [x \in ColSet(df) |->
                     IF x \in {COL_NAME, COL_GEOMETRY} THEN df.rows[k][x]
                     ELSE ToNumeric(df.rows[k][x])]]]

\* Result of a call that may raise: exc is "none" or the exception's name
EmptyDF == [index |-> <<>>, iname |-> <<>>, cols |-> <<>>, rows |-> <<>>]
Ok(df) == [exc |-> "none", df |-> df]
Raise(e) == [exc |-> e, df |-> EmptyDF]

\* a faulty variant of JoinLeft: how="inner", a left row without a match is dropped
JoinInner(left, right) ==
    LET Hit(k) == \E j \in 1..NRows(right) : right.index[j] = left.index[k]
        Keep == SelectSeq([k \in 1..NRows(left) |-> k], Hit)
        Match(k) == CHOOSE j \in 1..NRows(right) : right.index[j] = left.index[k]
    IN  IF ColSet(left) \cap ColSet(right) # {} THEN Raise("ValueError")
        ELSE Ok([index |-> [m \in 1..Len(Keep) |-> left.index[Keep[m]]],
                 iname |-> left.iname,
                 cols |-> left.cols \o right.cols,
                 rows |-> [m \in 1..Len(Keep) |->
                             [x \in ColSet(left) \cup ColSet(right) |->
                                 IF x \in ColSet(left) THEN left.rows[Keep[m]][x]
                                 ELSE right.rows[Match(Keep[m])][x]]]])

\* a faulty variant of JoinLeft: how="cross", every left row paired with every right row
JoinCross(left, right) ==
    LET n == NRows(right)
        L(m) == ((m - 1) \div n) + 1
        R(m) == ((m - 1) % n) + 1
    IN  IF ColSet(left) \cap ColSet(right) # {} THEN Raise("ValueError")
        ELSE Ok([index |-> [m \in 1..(NRows(left) * n) |-> left.index[L(m)]],
                 iname |-> left.iname,
                 cols |-> left.cols \o right.cols,
                 rows |-> [m \in 1..(NRows(left) * n) |->
                             [x \in ColSet(left) \cup ColSet(right) |->
                                 IF x \in ColSet(left) THEN left.rows[L(m)][x]
                                 ELSE right.rows[R(m)][x]]]])

\* a faulty variant of JoinLeft: how="right", the rows are those of the right frame
JoinRight(left, right) ==
    LET Hit(j) == \E k \in 1..NRows(left) : left.index[k] = right.index[j]
        Match(j) == CHOOSE k \in 1..NRows(left) : left.index[k] = right.index[j]
    IN  IF ColSet(left) \cap ColSet(right) # {} THEN Raise("ValueError")
        ELSE Ok([index |-> right.index, iname |-> left.iname,
                 cols |-> left.cols \o right.cols,
                 rows |-> [j \in 1..NRows(right) |->
                             [x \in ColSet(left) \cup ColSet(right) |->
                                 IF x \in ColSet(right) THEN right.rows[j][x]
                                 ELSE IF Hit(j) THEN left.rows[Match(j)][x] ELSE VNaN]]])

\* left.join(right, how="left"): joins on the index, keeps every left row in
\* order, one output row per matching right row (a left row without a match
\* gets NaN in the right columns); raises ValueError when the frames share a
\* column name, since no suffix is given
JoinLeft(left, right) ==
    LET Matches(k) == SelectSeq([j \in 1..NRows(right) |-> j],
                                LAMBDA j : right.index[j] = left.index[k])
        Both(k, j) == [x \in ColSet(left) \cup ColSet(right) |->
                          IF x \in ColSet(left) THEN left.rows[k][x]
                          ELSE IF j = 0 THEN VNaN ELSE right.rows[j][x]]
        RowsOf(k) == IF Matches(k) = <<>> THEN <<Both(k, 0)>>
                     ELSE [m \in 1..Len(Matches(k)) |-> Both(k, Matches(k)[m])]
        LabelsOf(k) == IF Matches(k) = <<>> THEN <<left.index[k]>>
                       ELSE [m \in 1..Len(Matches(k)) |-> left.index[k]]
        RECURSIVE AllRows(_), AllLabels(_)
        AllRows(k) == IF k > NRows(left) THEN <<>> ELSE RowsOf(k) \o AllRows(k + 1)
        AllLabels(k) == IF k > NRows(left) THEN <<>> ELSE LabelsOf(k) \o AllLabels(k + 1)
    IN  IF ColSet(left) \cap ColSet(right) # {} THEN Raise("ValueError")
        ELSE Ok([index |-> AllLabels(1), iname |-> left.iname,
                 cols |-> left.cols \o right.cols,
                 rows |-> AllRows(1)])

\* ------------------------------------------------------------------------
\* The statistical data source (censusdis ced.download), as seen by the
\* scripts: one record per geographic unit, values as text.
\* ------------------------------------------------------------------------
\* the geographic units the source knows, with their published codes (the
\* 11-digit tract keys of both stay below 2^31 once coerced to numbers)
Units ==
    [A |-> [state |-> <<"0","1">>, county |-> <<"0","0","1">>,
            tract |-> <<"0","2","0","1","0","0">>, zcta |-> <<"0","0","6","0","1">>,
            est |-> <<"1","0","0">>, moe |-> <<"3","2","9">>],
     B |-> [state |-> <<"0","2">>, county |-> <<"0","1","3">>,
            tract |-> <<"0","0","0","1","0","0">>, zcta |-> <<"0","0","5","0","1">>,
            est |-> <<"0">>, moe |-> <<"5">>]]

RECURSIVE StripZeros(_)
StripZeros(s) == IF Len(s) > 1 /\ s[1] = "0" THEN StripZeros(Tail(s)) ELSE s

\* a dimension code as delivered: as published ("padded") or with the
\* leading zeros lost ("short", a code that went through an integer)
RawDim(r, dim) == IF r.form = "short" THEN StripZeros(Units[r.unit][dim])
                  ELSE Units[r.unit][dim]

\* the dimension columns a response carries for each geography level
DimCols(geo) ==
    CASE geo = "tract" -> <<COL_STATE, COL_COUNTY, COL_TRACT>>
      [] geo = "county" -> <<COL_STATE, COL_COUNTY>>
      [] geo = "state" -> <<COL_STATE>>
      [] geo = "zcta" -> <<COL_ZIP>>

DimOf(c) == CASE c = COL_STATE -> "state" [] c = COL_COUNTY -> "county"
              [] c = COL_TRACT -> "tract" [] c = COL_ZIP -> "zcta"

\* the text the source returns for variable code v of a unit: its estimate
\* for a code ending in E, its margin of error for a code ending in M
SrcText(unit, v) == IF v[Len(v)] = "M" THEN Units[unit].moe ELSE Units[unit].est

\* ced.download(DATASET, ACS_YEAR, variable_list, **query_params,
\*              with_geometry=True) answering with resp:
\*   resp.rows  the units returned, in order, each in a raw form
\*   resp.dims  whether the geography dimension columns are present
\*   resp.pt    whether the NAME and geometry columns are present
Download(variable_list, geo, resp) ==
    LET dims == IF resp.dims THEN DimCols(geo) ELSE <<>>
        pass == IF resp.pt THEN <<COL_NAME, COL_GEOMETRY>> ELSE <<>>
        cols == dims \o variable_list \o pass
        Cell(r, x) == IF x \in SeqSet(dims) THEN VText(RawDim(r, DimOf(x)))
                      ELSE IF x = COL_NAME THEN VText(<<r.unit>>)
                      ELSE IF x = COL_GEOMETRY THEN VGeom(r.unit)
                      ELSE VText(SrcText(r.unit, x))
    IN  [index |-> [k \in 1..Len(resp.rows) |-> PosLabel(k - 1)], iname |-> <<>>,
         cols |-> cols,
         rows |-> [k \in 1..Len(resp.rows) |-> [x \in SeqSet(cols) |-> Cell(resp.rows[k], x)]]]

\* ------------------------------------------------------------------------
\* Geo-key normalisation
\* ------------------------------------------------------------------------
HasCols(df, cs) == SeqSet(cs) \subseteq ColSet(df)

\* acs5: "zip" in c.lower() or c.upper() == "ZCTA"
IsZctaColAcs5(c) == Contains(StrLower(c), <<"z","i","p">>) \/ StrUpper(c) = COL_ZCTA
\* nb: c.lower().startswith("zip") or c.upper() == "ZCTA"
IsZctaColNb(c) == StartsWith(StrLower(c), <<"z","i","p">>) \/ StrUpper(c) = COL_ZCTA

\* the recognition of the ZCTA column in either script
IsZctaCol(scr, c) == IF scr = "nb" THEN IsZctaColNb(c) ELSE IsZctaColAcs5(c)

\* [c for c in df.columns if ...][0]: the first column, in column order,
\* recognised as the ZCTA column
FirstCol(df, scr) ==
    df.cols[CHOOSE k \in 1..Len(df.cols) :
                IsZctaCol(scr, df.cols[k])
                /\ \A j \in 1..(k - 1) : ~IsZctaCol(scr, df.cols[j])]

\* the zero-padded id columns and the key column of one level, before
\* set_index; KeyError when a dimension column is missing, IndexError when no
\* column is recognised as the ZCTA column
PadIds(df, geo, scr) ==
    CASE geo = "tract" ->
           IF ~HasCols(df, <<COL_STATE, COL_COUNTY, COL_TRACT>>) THEN Raise("KeyError")
           ELSE Ok(ConcatCol(ZFillCol(ZFillCol(ZFillCol(df, COL_STATE, 2), COL_COUNTY, 3),
                                      COL_TRACT, 6),
                             COL_GEOID, <<COL_STATE, COL_COUNTY, COL_TRACT>>))
      [] geo = "zcta" ->
           IF ~\E c \in ColSet(df) : IsZctaCol(scr, c) THEN Raise("IndexError")
           ELSE Ok(ZFillCol(RenameCol(df, FirstCol(df, scr), COL_ZCTA), COL_ZCTA, 5))
      [] geo = "county" ->
           IF ~HasCols(df, <<COL_STATE, COL_COUNTY>>) THEN Raise("KeyError")
           ELSE Ok(ConcatCol(ZFillCol(ZFillCol(df, COL_STATE, 2), COL_COUNTY, 3),
                             COL_FIPS, <<COL_STATE, COL_COUNTY>>))
      [] geo = "state" ->
           IF ~HasCols(df, <<COL_STATE>>) THEN Raise("KeyError")
           ELSE Ok(ZFillCol(df, COL_STATE, 2))

\* the column that holds the geo key of a level
KeyCol(geo) == CASE geo = "tract" -> COL_GEOID [] geo = "zcta" -> COL_ZCTA
                 [] geo = "county" -> COL_FIPS [] geo = "state" -> COL_STATE

\* acs5 fetch_data_chunk, after the download: pad, build the key, set it as
\* the index, coerce every column but geometry and NAME to numeric
fetch_data_chunk(df, geo) ==
    LET p == PadIds(df, geo, "acs5")
    IN  IF p.exc # "none" THEN p
        ELSE Ok(CoerceNumeric(SetIndex(p.df, KeyCol(geo))))

\* nb fetch_geo_data, first chunk: as above without the coercion; for tract
\* the set_index call is swallowed by the comment on line 162, so the frame
\* keeps its RangeIndex and the GEOID column
nb_first_chunk(df, geo) ==
    LET p == PadIds(df, geo, "nb")
    IN  IF p.exc # "none" THEN p
        ELSE IF geo = "tract" THEN p
        ELSE Ok(SetIndex(p.df, KeyCol(geo)))

\* nb fetch_geo_data, a later chunk: padded, keyed and indexed at every level
nb_later_chunk(df, geo) ==
    LET p == PadIds(df, geo, "nb")
    IN  IF p.exc # "none" THEN p
        ELSE Ok(SetIndex(p.df, KeyCol(geo)))

\* ------------------------------------------------------------------------
\* Curated tables, the variable catalog and the per-table variable lists
\* ------------------------------------------------------------------------
\* largest number of estimate variables the catalog lists for one table
MaxEst == 26

\* a curated table: its code and the number of estimate variables the
\* catalog lists for it (<table>_001E, <table>_002E, ...)
Table(id, nest) == [id |-> id, nest |-> nest]
T_B01003 == Table(<<"B","0","1","0","0","3">>, 1)
T_B01001E == Table(<<"B","0","1","0","0","1","E">>, 1)
T_B19013 == Table(<<"B","1","9","0","1","3">>, MaxEst)
T_B99999 == Table(<<"B","9","9","9","9","9">>, 0)

\* the VARIABLE column of the catalog rows of table t
CatalogVars(t) == [n \in 1..t.nest |-> EstCode(t.id, n)]

\* the codes of a table's catalog rows that the loop takes as its estimate
\* variables: acs5 keeps the rows whose VARIABLE matches acs_pattern, nb
\* takes every row of the group
TableVars(scr, codes) ==
    IF scr = "acs5" THEN SelectSeq(codes, acs_pattern) ELSE codes

\* acs5: vars_final rows of the table, i.e. the catalog codes that match
\* acs_pattern
table_vars_acs5(t) == TableVars("acs5", CatalogVars(t))
\* nb: vars_subset["VARIABLE"].tolist(), unfiltered
var_codes_nb(t) == TableVars("nb", CatalogVars(t))

EstVars(script, t) == IF script = "acs5" THEN table_vars_acs5(t) ELSE var_codes_nb(t)

\* table_moes = [v.replace("E", "M") for v in table_vars]
MoeCode(v) == StrReplace(v, "E", "M")
MoeCodes(vars) == [k \in 1..Len(vars) |-> MoeCode(vars[k])]

\* variables_all = table_vars + table_moes, from the VARIABLE column of the
\* table's catalog rows
VariableList(scr, codes) == TableVars(scr, codes) \o MoeCodes(TableVars(scr, codes))

\* variables_all = table_vars + table_moes
VariablesAll(script, t) == EstVars(script, t) \o MoeCodes(EstVars(script, t))

\* the tables the loop iterates: acs5 walks table_list; nb walks the groups
\* of the filtered catalog, so a table without catalog rows has no group
LoopTables(script, tl) ==
    IF script = "acs5" THEN tl ELSE SelectSeq(tl, LAMBDA t : t.nest > 0)

\* a faulty variant of ChunkVars: the slice runs one entry too far
ChunkVarsOverlap(vars, i) ==
    SubSeq(vars, i + 1, Min(i + MAX_VARS_PER_CALL + 1, Len(vars)))

\* chunk_vars = variables_all[i:i+MAX_VARS_PER_CALL]
ChunkVars(vars, i) == SubSeq(vars, i + 1, Min(i + MAX_VARS_PER_CALL, Len(vars)))

\* ------------------------------------------------------------------------
\* The metadata sheets and the variable reference table (notebook)
\* ------------------------------------------------------------------------
COL_TABLE == <<"t","a","b","l","e">>
COL_TABLE_DESCRIPTION == <<"t","a","b","l","e","_","d","e","s","c","r","i","p","t","i","o","n">>
COL_VARIABLE_CODE == <<"v","a","r","i","a","b","l","e","_","c","o","d","e">>
COL_VARIABLE_LABEL == <<"v","a","r","i","a","b","l","e","_","l","a","b","e","l">>

\* the description a sheet gives for a table, the label it gives for a variable
DescriptionOf(id) == <<"D",":">> \o id
LabelOf(v) == <<"L",":">> \o v

\* a table of the Variables_All sheet that is not curated
T_C17002 == Table(<<"C","1","7","0","0","2">>, 1)

RECURSIVE ConcatSeqs(_)
ConcatSeqs(ss) == IF ss = <<>> THEN <<>> ELSE Head(ss) \o ConcatSeqs(Tail(ss))

\* curated_tables_df: one row per curated table
curated_tables_df(tl) ==
    [k \in 1..Len(tl) |-> [table |-> tl[k].id, description |-> DescriptionOf(tl[k].id)]]
\* curated_table_ids = [row["table"] for row in ...collect()]
curated_table_ids(tl) == {tl[k].id : k \in 1..Len(tl)}
\* all_vars_df: the variables of every table of the survey
VarRows(t) == [n \in 1..t.nest |->
                 [table |-> t.id, variable |-> EstCode(t.id, n),
                  label |-> LabelOf(EstCode(t.id, n))]]
all_vars_df(tl) == VarRows(T_C17002) \o ConcatSeqs([k \in 1..Len(tl) |-> VarRows(tl[k])])
\* filtered_vars_df = all_vars_df.filter(all_vars_df["table"].isin(curated_table_ids))
filtered_vars_df(tl) ==
    SelectSeq(all_vars_df(tl), LAMBDA r : r.table \in curated_table_ids(tl))

\* filtered_vars_df.join(curated_tables_df, on="table", how="left")
\*     .select("table", "DESCRIPTION", "VARIABLE", "LABEL") with the three
\* renamed columns: one row per variable row and matching table row, the
\* description null where no table row matches
vars_meta_df(tl) ==
    LET left == filtered_vars_df(tl)
        right == curated_tables_df(tl)
        Out(r, d) == [x \in {COL_TABLE, COL_TABLE_DESCRIPTION, COL_VARIABLE_CODE,
                             COL_VARIABLE_LABEL} |->
                        CASE x = COL_TABLE -> VText(r.table)
                          [] x = COL_TABLE_DESCRIPTION -> d
                          [] x = COL_VARIABLE_CODE -> VText(r.variable)
                          [] x = COL_VARIABLE_LABEL -> VText(r.label)]
        Matches(r) == SelectSeq(right, LAMBDA c : c.table = r.table)
        RowsOf(r) == IF Matches(r) = <<>> THEN <<Out(r, VNone)>>
                     ELSE [j \in 1..Len(Matches(r)) |-> Out(r, VText(Matches(r)[j].description))]
        rows == ConcatSeqs([k \in 1..Len(left) |-> RowsOf(left[k])])
    IN  [index |-> [k \in 1..Len(rows) |-> PosLabel(k - 1)], iname |-> <<>>,
         cols |-> <<COL_TABLE, COL_TABLE_DESCRIPTION, COL_VARIABLE_CODE, COL_VARIABLE_LABEL>>,
         rows |-> rows]

\* ------------------------------------------------------------------------
\* Reliability columns
\* ------------------------------------------------------------------------
\* (moe / 1.645) / est * 100.0
CVCell(est, moe) == FMul(FDiv(FDiv(moe, Z_SCORE), est), HUNDRED)

\* for var in table_vars: moe_var = var.replace("E", "M");
\*   if var in columns and moe_var in columns: df[var + "_CV"] = ...
AddCV(df, vars) ==
    LET RECURSIVE Go(_, _)
        Go(d, k) ==
            IF k > Len(vars) THEN d
            ELSE IF vars[k] \in ColSet(d) /\ MoeCode(vars[k]) \in ColSet(d)
                 THEN Go(SetCol(d, vars[k] \o SUFFIX_CV,
                                [r \in 1..NRows(d) |->
                                    CVCell(d.rows[r][vars[k]], d.rows[r][MoeCode(vars[k])])]),
                         k + 1)
                 ELSE Go(d, k + 1)
    IN  Go(df, 1)

\* ------------------------------------------------------------------------
\* The sink
\* ------------------------------------------------------------------------
GeoChars(geo) == CASE geo = "tract" -> COL_TRACT [] geo = "zcta" -> StrLower(COL_ZCTA)
                   [] geo = "county" -> COL_COUNTY [] geo = "state" -> COL_STATE

\* acs5: f"acs5_{ACS_YEAR}_{table_id}_{geo}.parquet"
\* nb:   f"Bronze.census_acs2022_{table_id}_{geo}"
TargetName(script, table_id, geo) ==
    IF script = "acs5"
    THEN <<"a","c","s","5","_","2","0","2","2","_">> \o table_id \o <<"_">> \o GeoChars(geo)
         \o <<".","p","a","r","q","u","e","t">>
    ELSE <<"B","r","o","n","z","e",".","c","e","n","s","u","s","_","a","c","s","2","0","2","2","_">>
         \o table_id \o <<"_">> \o GeoChars(geo)

\* a persisted dataset: absent, or a frame with its partition columns
Absent == [some |-> FALSE, df |-> EmptyDF, part |-> <<>>]
Dataset(df, part) == [some |-> TRUE, df |-> df, part |-> part]

\* geo_df.reset_index(inplace=True): the index becomes the first column,
\* named after the index ("index" when it has no name); new RangeIndex
COL_INDEX == <<"i","n","d","e","x">>
ResetIndex(df) ==
    LET c == IF df.iname = <<>> THEN COL_INDEX ELSE df.iname
    IN  [index |-> [k \in 1..NRows(df) |-> PosLabel(k - 1)], iname |-> <<>>,
         cols |-> <<c>> \o df.cols,
         rows |-> [k \in 1..NRows(df) |->
                     [x \in ColSet(df) \cup {c} |->
                         IF x = c THEN df.index[k] ELSE df.rows[k][x]]]]

\* geometry -> geometry_wkt (geom.wkt, None stays None), geometry dropped
COL_GEOMETRY_WKT == COL_GEOMETRY \o <<"_","w","k","t">>
Wkt(v) == IF v.k = "geom" THEN VText(<<"W","K","T">> \o v.s) ELSE VNone
GeometryToWkt(df) ==
    IF COL_GEOMETRY \notin ColSet(df) THEN df
    ELSE DropCol(SetCol(df, COL_GEOMETRY_WKT,
                        [k \in 1..NRows(df) |-> Wkt(df.rows[k][COL_GEOMETRY])]),
                 COL_GEOMETRY)

\* a faulty variant of Outgoing: every write is partitioned by state
OutgoingAllPartitioned(script, df, geo) ==
    IF script = "acs5" THEN Dataset(df, <<>>)
    ELSE Dataset(GeometryToWkt(ResetIndex(df)), <<COL_STATE>>)

\* what the write hands to the sink for a unit
\*   acs5: geo_gdf.to_parquet(output_file), the frame with its index
\*   nb:   reset_index, geometry as text, partitionBy("state") for tract, county
Outgoing(script, df, geo) ==
    IF script = "acs5" THEN Dataset(df, <<>>)
    ELSE Dataset(GeometryToWkt(ResetIndex(df)),
                 IF geo \in {"tract", "county"} THEN <<COL_STATE>> ELSE <<>>)

\* a faulty variant of SinkWrite: mode("append"), the rows are added to the dataset
SinkAppend(st, name, ds) ==
    IF ~st[name].some THEN [st EXCEPT ![name] = ds]
    ELSE [st EXCEPT ![name] =
             Dataset([index |-> st[name].df.index \o ds.df.index, iname |-> ds.df.iname,
                      cols |-> ds.df.cols, rows |-> st[name].df.rows \o ds.df.rows],
                     ds.part)]

\* to_parquet(path) / write.mode("overwrite").saveAsTable(name): the
\* destination of that name is replaced by the written dataset
SinkWrite(st, name, ds) == [st EXCEPT ![name] = ds]

\* ------------------------------------------------------------------------
\* State
\* ------------------------------------------------------------------------
VARIABLES
    script,      \* which script runs: "acs5" or "nb"
    table_list,  \* the curated tables, in order
    pc,          \* position in the script
    ti,          \* index of the current table in the loop
    gi,          \* index of the current geography in geographies
    i,           \* offset of the current chunk in variables_all
    retries,     \* acs5: attempts left for the current chunk
    attempts,    \* requests sent so far for the current chunk
    slept,       \* seconds slept between the attempts of the current chunk
    chunk_df,    \* acs5: the module-level name chunk_df (unbound at start);
                 \* nb: the local chunk_df of fetch_geo_data
    geo_gdf,     \* acs5 geo_gdf / nb df_full, later geo_df (None at unit start)
    store,       \* the sink: target name -> persisted dataset
    store0,      \* the sink as it was when the run started
    written,     \* the target names of the unit writes so far, in order
    log,         \* the tables for which a skip message was printed
    exhausted,   \* units (table index, geography) with a chunk whose retries ran out
    requested,   \* the variable groups requested so far in the current unit
    answers,     \* the responses the source gave to the requests of the current unit
    err,         \* the exception that ended the run, "none" otherwise
    fn           \* a function under test with its input and output

vars == <<script, table_list, pc, ti, gi, i, retries, attempts, slept, chunk_df,
          geo_gdf, store, store0, written, log, exhausted, requested, answers, err, fn>>

\* a Python name that is either unbound / None or bound to a frame
Nothing == [some |-> FALSE, df |-> EmptyDF]
Some(df) == [some |-> TRUE, df |-> df]

Tables == LoopTables(script, table_list)
CurTable == Tables[ti]
CurGeo == geographies[gi]
table_vars == EstVars(script, CurTable)
variables_all == VariablesAll(script, CurTable)
CurName == TargetName(script, CurTable.id, CurGeo)

\* "Bronze.census_variable_reference"
REFERENCE_NAME == <<"B","r","o","n","z","e",".","c","e","n","s","u","s","_",
                    "v","a","r","i","a","b","l","e","_","r","e","f","e","r","e","n","c","e">>

\* every target name of the run
AllNames(scr, tl) ==
    {TargetName(scr, tl[t].id, geographies[g]) : t \in 1..Len(tl), g \in 1..Len(geographies)}
    \cup (IF scr = "nb" THEN {REFERENCE_NAME} ELSE {})

\* ------------------------------------------------------------------------
\* Inputs of the model
\* ------------------------------------------------------------------------
Row(u, f) == [unit |-> u, form |-> f]
\* the record lists a response may carry: one record per geographic unit
RowSeqs == {<<Row("A", "padded")>>,
            <<Row("A", "padded"), Row("B", "padded")>>,
            <<Row("B", "padded"), Row("A", "short")>>}
\* the responses of the source: well-formed ones with or without the
\* passthrough columns, and one that lacks the geography dimension columns
Responses ==
    {[rows |-> r, dims |-> TRUE, pt |-> p] : r \in RowSeqs, p \in BOOLEAN}
    \cup {[rows |-> <<Row("A", "padded")>>, dims |-> FALSE, pt |-> TRUE]}

\* a dataset left in the sink by an earlier run
PriorFrame == [index |-> <<VText(<<"p","r","i","o","r">>)>>, iname |-> <<>>,
               cols |-> <<COL_NAME>>,
               rows |-> <<[x \in {COL_NAME} |-> VText(<<"p","r","i","o","r">>)]>>]
PriorStores(names) == {[n \in names |-> Absent], [n \in names |-> Dataset(PriorFrame, <<>>)]}

\* the curated lists of the full runs
RunCatalogs == {<<T_B01003>>, <<T_B19013>>, <<T_B99999, T_B01003>>}
\* the tables whose units are run in isolation
UnitTables == {T_B19013}

NoFn == [op |-> "none"]

InitAt(scr, tl, st, g, p) ==
    /\ script = scr
    /\ table_list = tl
    /\ pc = p
    /\ ti = 1
    /\ gi = g
    /\ i = 0
    /\ retries = 0
    /\ attempts = 0
    /\ slept = 0
    /\ chunk_df = Nothing
    /\ geo_gdf = Nothing
    /\ store = st
    /\ store0 = st
    /\ written = <<>>
    /\ log = {}
    /\ exhausted = {}
    /\ requested = <<>>
    /\ answers = <<>>
    /\ err = "none"
    /\ fn = NoFn

\* a run of either script from its first statement
Init ==
    \E scr \in {"acs5", "nb"} : \E tl \in RunCatalogs :
        \E st \in PriorStores(AllNames(scr, tl)) :
            InitAt(scr, tl, st, 1, "table")

\* one (table, geography) unit of a table with more than one request, run
\* from the top of the geography loop body at a drawn geography level
InitUnit ==
    \E scr \in {"acs5", "nb"} : \E t \in UnitTables : \E g \in 1..Len(geographies) :
        InitAt(scr, <<t>>, [n \in AllNames(scr, <<t>>) |-> Absent], g, "geo")

\* ------------------------------------------------------------------------
\* The table / geography / chunk loops
\* ------------------------------------------------------------------------
\* an exception nobody catches ends the script
Crash(e) ==
    /\ pc' = "crashed"
    /\ err' = e
    /\ UNCHANGED <<script, table_list, ti, gi, i, retries, attempts, slept, chunk_df, geo_gdf, store,
                   store0, written, log, exhausted, requested, answers, fn>>

\* top of the table loop: end of the run, a table without variables
\* (skipped; acs5 prints "Skipping <table>: No valid ACS variables found.",
\* nb continues without a message), or a table to process
TableStep ==
    /\ pc = "table"
    /\ IF ti > Len(Tables)
       THEN pc' = "done" /\ UNCHANGED <<ti, gi, log>>
       ELSE IF variables_all = <<>>
            THEN /\ log' = IF script = "acs5" THEN log \cup {CurTable.id} ELSE log
                 /\ ti' = ti + 1
                 /\ UNCHANGED <<pc, gi>>
            ELSE gi' = 1 /\ pc' = "geo" /\ UNCHANGED <<ti, log>>
    /\ UNCHANGED <<script, table_list, i, retries, attempts, slept, chunk_df, geo_gdf,
                   store, store0, written, exhausted, requested, answers, err, fn>>

\* top of the geography loop: next table, or a unit to process.  nb enters
\* fetch_geo_data, whose df_full and chunk_df are fresh locals; in acs5 only
\* geo_gdf is reset and chunk_df keeps whatever it was bound to
GeoStep ==
    /\ pc = "geo"
    /\ IF gi > Len(geographies)
       THEN /\ ti' = ti + 1
            /\ pc' = "table"
            /\ UNCHANGED <<i, chunk_df, geo_gdf, requested, answers>>
       ELSE /\ geo_gdf' = Nothing
            /\ chunk_df' = IF script = "nb" THEN Nothing ELSE chunk_df
            /\ i' = 0
            /\ requested' = <<>>
            /\ answers' = <<>>
            /\ pc' = "chunk"
            /\ UNCHANGED ti
    /\ UNCHANGED <<script, table_list, gi, retries, attempts, slept, store, store0, written, log, exhausted, err, fn>>

\* top of the chunk loop, range(0, len(variables_all), MAX_VARS_PER_CALL):
\* the next group, or the end of the loop (where nb's fetch_geo_data coerces
\* the merged frame and returns it)
ChunkStep ==
    /\ pc = "chunk"
    /\ IF i < Len(variables_all)
       THEN /\ retries' = IF script = "acs5" THEN RETRY_LIMIT ELSE retries
            /\ attempts' = 0
            /\ slept' = 0
            /\ pc' = "try"
            /\ UNCHANGED geo_gdf
       ELSE /\ geo_gdf' = IF script = "nb" THEN Some(CoerceNumeric(geo_gdf.df)) ELSE geo_gdf
            /\ pc' = "cv"
            /\ UNCHANGED <<retries, attempts, slept>>
    /\ UNCHANGED <<script, table_list, ti, gi, i, chunk_df, store, store0, written, log, exhausted,
                   requested, answers, err, fn>>

\* a faulty variant of Sleep: the handler does not wait
NoSleep(total, seconds) == total

\* time.sleep(seconds): the time spent waiting grows by the delay
Sleep(total, seconds) == total + seconds

\* the group is recorded as requested when its first request goes out
FirstAttempt == script = "nb" \/ retries = RETRY_LIMIT
Requested == IF FirstAttempt THEN Append(requested, ChunkVars(variables_all, i))
             ELSE requested

\* a request times out (ReadTimeout): acs5 counts the attempt and sleeps
\* WAIT_BETWEEN_RETRIES, nb has no handler
AttemptTimeout ==
    /\ pc = "try"
    /\ IF script = "acs5"
       THEN /\ retries > 0
            /\ retries' = retries - 1
            /\ slept' = Sleep(slept, WAIT_BETWEEN_RETRIES)
            /\ UNCHANGED <<pc, err>>
       ELSE /\ pc' = "crashed"
            /\ err' = "ReadTimeout"
            /\ UNCHANGED <<retries, slept>>
    /\ attempts' = attempts + 1
    /\ requested' = Requested
    /\ UNCHANGED <<script, table_list, ti, gi, i, chunk_df, geo_gdf, store, store0, written, log,
                   exhausted, answers, fn>>

\* a request is answered: acs5 normalises and coerces inside
\* fetch_data_chunk (an exception there is not a ReadTimeout and escapes),
\* nb keeps the raw frame for the merge step
AttemptResponse ==
    /\ pc = "try"
    /\ script = "acs5" => retries > 0
    /\ \E resp \in Responses :
         LET raw == Download(ChunkVars(variables_all, i), CurGeo, resp)
             r == IF script = "acs5" THEN fetch_data_chunk(raw, CurGeo) ELSE Ok(raw)
         IN  /\ answers' = Append(answers, resp)
             /\ IF r.exc # "none"
                THEN pc' = "crashed" /\ err' = r.exc /\ UNCHANGED chunk_df
                ELSE pc' = "merge" /\ chunk_df' = Some(r.df) /\ UNCHANGED err
    /\ attempts' = attempts + 1
    /\ requested' = Requested
    /\ UNCHANGED <<script, table_list, ti, gi, i, retries, slept, geo_gdf, store, store0, written, log,
                   exhausted, fn>>

\* acs5: the while loop ends with retries == 0 and no break; nothing is
\* raised and the script goes on with the statement after the loop
RetriesExhausted ==
    /\ pc = "try"
    /\ script = "acs5"
    /\ retries = 0
    /\ pc' = "merge"
    /\ exhausted' = exhausted \cup {<<ti, gi>>}
    /\ UNCHANGED <<script, table_list, ti, gi, i, retries, attempts, slept, chunk_df, geo_gdf, store,
                   store0, written, log, requested, answers, err, fn>>

\* the frame the merge step produces, or the exception it raises
\*   acs5: if geo_gdf is None: geo_gdf = chunk_df
\*         else: geo_gdf = geo_gdf.join(chunk_df, how="left")
\*         (NameError when chunk_df was never bound)
\*   nb:   the first chunk is normalised into df_full, a later one is
\*         normalised and joined
Merged ==
    IF script = "acs5"
    THEN IF ~chunk_df.some THEN Raise("NameError")
         ELSE IF ~geo_gdf.some THEN Ok(chunk_df.df)
         ELSE JoinLeft(geo_gdf.df, chunk_df.df)
    ELSE IF ~geo_gdf.some THEN nb_first_chunk(chunk_df.df, CurGeo)
         ELSE LET n == nb_later_chunk(chunk_df.df, CurGeo)
              IN  IF n.exc # "none" THEN n ELSE JoinLeft(geo_gdf.df, n.df)

MergeStep ==
    /\ pc = "merge"
    /\ IF Merged.exc # "none"
       THEN pc' = "crashed" /\ err' = Merged.exc /\ UNCHANGED <<geo_gdf, i>>
       ELSE /\ geo_gdf' = Some(Merged.df)
            /\ i' = i + MAX_VARS_PER_CALL
            /\ pc' = "chunk"
            /\ UNCHANGED err
    /\ UNCHANGED <<script, table_list, ti, gi, retries, attempts, slept, chunk_df, store, store0, written, log,
                   exhausted, requested, answers, fn>>

\* the CV columns of the unit
CVStep ==
    /\ pc = "cv"
    /\ geo_gdf' = Some(AddCV(geo_gdf.df, table_vars))
    /\ pc' = "write"
    /\ UNCHANGED <<script, table_list, ti, gi, i, retries, attempts, slept, chunk_df, store, store0, written, log,
                   exhausted, requested, answers, err, fn>>

\* the write succeeds and the geography loop goes on
WriteOk ==
    /\ pc = "write"
    /\ store' = SinkWrite(store, CurName, Outgoing(script, geo_gdf.df, CurGeo))
    /\ written' = Append(written, CurName)
    /\ gi' = gi + 1
    /\ pc' = "geo"
    /\ UNCHANGED <<script, table_list, ti, i, retries, attempts, slept, chunk_df, geo_gdf, store0, log,
                   exhausted, requested, answers, err, fn>>

\* the sink refuses the write: the exception is not caught
WriteFail ==
    /\ pc = "write"
    /\ Crash("WriteError")

\* nb, after the loops: the variable reference table is built and written
\* with mode("overwrite")
ReferenceStep ==
    /\ pc = "done"
    /\ script = "nb"
    /\ store' = SinkWrite(store, REFERENCE_NAME, Dataset(vars_meta_df(table_list), <<>>))
    /\ pc' = "end"
    /\ UNCHANGED <<script, table_list, ti, gi, i, retries, attempts, slept, chunk_df,
                   geo_gdf, store0, written, log, exhausted, requested, answers, err, fn>>

Next ==
    \/ TableStep
    \/ GeoStep
    \/ ChunkStep
    \/ AttemptTimeout
    \/ AttemptResponse
    \/ RetriesExhausted
    \/ MergeStep
    \/ CVStep
    \/ WriteOk
    \/ WriteFail
    \/ ReferenceStep

Spec == Init /\ [][Next]_vars
SpecUnit == InitUnit /\ [][Next]_vars

\* ------------------------------------------------------------------------
\* The catalog research scripts (acs_variable_research.py,
\* acs_table_research.py): the same retry loop around the download of one
\* table's variables, for each table (group) in turn
\* ------------------------------------------------------------------------
\* number of groups the research scripts walk
MaxGroups == 2
\* acs_variable_research.py waits 3 seconds, acs_table_research.py 2
WAIT_BETWEEN_RETRIES_VARIABLE_RESEARCH == 3
WAIT_BETWEEN_RETRIES_TABLE_RESEARCH == 2
ResearchScripts == {"variable_research", "table_research"}
WaitOf(scr) == CASE scr = "variable_research" -> WAIT_BETWEEN_RETRIES_VARIABLE_RESEARCH
                 [] scr = "table_research" -> WAIT_BETWEEN_RETRIES_TABLE_RESEARCH
                 [] OTHER -> WAIT_BETWEEN_RETRIES

\* for i, group in enumerate(groups, start=1): retries = RETRY_LIMIT
ResearchGroupStep ==
    /\ pc = "r_group"
    /\ IF i < MaxGroups
       THEN /\ retries' = RETRY_LIMIT
            /\ attempts' = 0
            /\ slept' = 0
            /\ pc' = "r_try"
       ELSE /\ pc' = "r_done"
            /\ UNCHANGED <<retries, attempts, slept>>
    /\ UNCHANGED <<script, table_list, ti, gi, i, chunk_df, geo_gdf, store, store0, written, log,
                   exhausted, requested, answers, err, fn>>

\* except ReadTimeout: retries -= 1; time.sleep(WAIT_BETWEEN_RETRIES); when
\* that was the last attempt the while loop ends and the for loop goes on
\* with the next group
ResearchTimeout ==
    /\ pc = "r_try"
    /\ retries' = retries - 1
    /\ attempts' = attempts + 1
    /\ slept' = Sleep(slept, WaitOf(script))
    /\ IF retries' > 0 THEN UNCHANGED <<pc, i>> ELSE pc' = "r_group" /\ i' = i + 1
    /\ UNCHANGED <<script, table_list, ti, gi, chunk_df, geo_gdf, store, store0, written, log,
                   exhausted, requested, answers, err, fn>>

\* the download is answered: all_vars.append(df); break
ResearchFetched ==
    /\ pc = "r_try"
    /\ attempts' = attempts + 1
    /\ fn' = [fn EXCEPT !.all_vars = Append(fn.all_vars, i + 1)]
    /\ pc' = "r_group"
    /\ i' = i + 1
    /\ UNCHANGED <<script, table_list, ti, gi, retries, slept, chunk_df, geo_gdf, store,
                   store0, written, log, exhausted, requested, answers, err>>

\* a research script at the top of its group loop
InitResearch ==
    /\ script \in ResearchScripts
    /\ table_list = <<>>
    /\ pc = "r_group"
    /\ ti = 1
    /\ gi = 1
    /\ i = 0
    /\ retries = 0
    /\ attempts = 0
    /\ slept = 0
    /\ chunk_df = Nothing
    /\ geo_gdf = Nothing
    /\ store = <<>>
    /\ store0 = <<>>
    /\ written = <<>>
    /\ log = {}
    /\ exhausted = {}
    /\ requested = <<>>
    /\ answers = <<>>
    /\ err = "none"
    /\ fn = [op |-> "research", all_vars |-> <<>>]

\* the tables whose retry loops are followed
RetryTables == {T_B01003}
\* the last two units of a one-request table of either pipeline script (the
\* retry loop is the same at every level), or a research script
InitRetry ==
    \/ \E scr \in {"acs5", "nb"} : \E t \in RetryTables :
          \E g \in (Len(geographies) - 1)..Len(geographies) :
            InitAt(scr, <<t>>, [n \in AllNames(scr, <<t>>) |-> Absent], g, "geo")
    \/ InitResearch

NextRetry ==
    \/ TableStep
    \/ GeoStep
    \/ ChunkStep
    \/ AttemptTimeout
    \/ AttemptResponse
    \/ RetriesExhausted
    \/ MergeStep
    \/ CVStep
    \/ WriteOk
    \/ WriteFail
    \/ ReferenceStep
    \/ ResearchGroupStep
    \/ ResearchTimeout
    \/ ResearchFetched

\* a step of a retry loop
RetryStep ==
    \/ AttemptTimeout
    \/ AttemptResponse
    \/ RetriesExhausted
    \/ ResearchTimeout
    \/ ResearchFetched

\* every request returns, with an answer or with a timeout, and the loop
\* goes on with its next statement
SpecRetry == InitRetry /\ [][NextRetry]_vars /\ WF_vars(RetryStep)

\* ------------------------------------------------------------------------
\* Functions under test: the key normalisation, the margin-of-error code
\* derivation, the SE / CV computation and the chunk loop, each applied to
\* inputs drawn from bounded sets.  fn holds the input, and the output once
\* the function has been applied (done).
\* ------------------------------------------------------------------------
\* longest variable list handed to the chunk loop
MaxVars == 120
\* rows of the end-to-end state scenario (the states the source returns)
ScenarioRows == 51

\* raw dimension values, including values wider than the segment
RawState == {<<"1">>, <<"0","1">>, <<"4","8">>, <<"0","4","8">>}
RawCounty == {<<"1">>, <<"0","0","1">>, <<"2","0","1">>, <<"0","2","0","1">>}
RawTract == {<<"1","0","0">>, <<"0","2","0","1","0","0">>, <<"1","2","3","4","5","6","7">>}
RawZcta == {<<"6","0","1">>, <<"0","0","6","0","1">>, <<"1","2","3","4","5","6">>}

\* the documented width of each segment
Width(dim) == CASE dim = "state" -> 2 [] dim = "county" -> 3
                [] dim = "tract" -> 6 [] dim = "zcta" -> 5
\* the dimensions a level's key is built from, in order
KeyDims(geo) == CASE geo = "tract" -> <<"state", "county", "tract">>
                  [] geo = "county" -> <<"state", "county">>
                  [] geo = "state" -> <<"state">>
                  [] geo = "zcta" -> <<"zcta">>

NormalizeInputs ==
    {[op |-> "normalize", done |-> FALSE, scr |-> sc, geo |-> "tract",
      raw |-> [state |-> a, county |-> b, tract |-> c], out |-> Raise("pending")] :
        sc \in {"acs5", "nb"}, a \in RawState, b \in RawCounty, c \in RawTract}
    \cup {[op |-> "normalize", done |-> FALSE, scr |-> sc, geo |-> "county",
           raw |-> [state |-> a, county |-> b], out |-> Raise("pending")] :
             sc \in {"acs5", "nb"}, a \in RawState, b \in RawCounty}
    \cup {[op |-> "normalize", done |-> FALSE, scr |-> sc, geo |-> "state",
           raw |-> [state |-> a], out |-> Raise("pending")] :
             sc \in {"acs5", "nb"}, a \in RawState}
    \cup {[op |-> "normalize", done |-> FALSE, scr |-> sc, geo |-> "zcta",
           raw |-> [zcta |-> a], out |-> Raise("pending")] :
             sc \in {"acs5", "nb"}, a \in RawZcta}

\* the one-record response frame that carries the raw fields
RawFrame(geo, raw) ==
    LET cols == SelectSeq(DimCols(geo), LAMBDA c : DimOf(c) \in DOMAIN raw)
    IN  [index |-> <<PosLabel(0)>>, iname |-> <<>>, cols |-> cols,
         rows |-> <<[x \in SeqSet(cols) |-> VText(raw[DimOf(x)])]>>]

\* normalize(geoLevel, rawFields): the key either script builds for one
\* record, before the numeric coercion that follows it
Normalize(scr, geo, raw) ==
    IF scr = "nb" THEN nb_first_chunk(RawFrame(geo, raw), geo)
    ELSE LET p == PadIds(RawFrame(geo, raw), geo, "acs5")
         IN  IF p.exc # "none" THEN p ELSE Ok(SetIndex(p.df, KeyCol(geo)))

FnNormalize ==
    /\ pc = "fn"
    /\ fn.op = "normalize"
    /\ ~fn.done
    /\ fn' = [fn EXCEPT !.done = TRUE, !.out = Normalize(fn.scr, fn.geo, fn.raw)]
    /\ UNCHANGED <<script, table_list, pc, ti, gi, i, retries, attempts, slept, chunk_df, geo_gdf, store,
                   store0, written, log, exhausted, requested, answers, err>>

\* raw records with a defect in one required dimension field: the field is
\* absent, or its value is not a number
NON_NUMERIC == <<"N">>
MalformedInputs ==
    {[op |-> "normalize_raw", done |-> FALSE, scr |-> sc, geo |-> g, defect |-> "absent",
      field |-> x, raw |-> [d \in SeqSet(KeyDims(g)) \ {x} |-> Units.A[d]],
      out |-> Raise("pending")] :
        sc \in {"acs5", "nb"}, g \in SeqSet(geographies), x \in {"state", "county", "tract", "zcta"}}
    \cup {[op |-> "normalize_raw", done |-> FALSE, scr |-> sc, geo |-> g,
           defect |-> "non-numeric", field |-> x,
           raw |-> [d \in SeqSet(KeyDims(g)) |-> IF d = x THEN NON_NUMERIC ELSE Units.A[d]],
           out |-> Raise("pending")] :
             sc \in {"acs5", "nb"}, g \in SeqSet(geographies),
             x \in {"state", "county", "tract", "zcta"}}

\* the normalisation applied to a raw record as it came
FnNormalizeRaw ==
    /\ pc = "fn"
    /\ fn.op = "normalize_raw"
    /\ ~fn.done
    /\ fn' = [fn EXCEPT !.done = TRUE, !.out = Normalize(fn.scr, fn.geo, fn.raw)]
    /\ UNCHANGED <<script, table_list, pc, ti, gi, i, retries, attempts, slept, chunk_df,
                   geo_gdf, store, store0, written, log, exhausted, requested, answers, err>>

\* estimate codes of the catalog, among them codes of tables whose own code
\* contains the letter E
CodeSamples ==
    {EstCode(T_B01003.id, 1), EstCode(T_B19013.id, 2), EstCode(T_B01001E.id, 1),
     EstCode(<<"D","P","0","3">>, 1), EstCode(<<"C","E","0","1">>, 7)}

MoeInputs == {[op |-> "moe", done |-> FALSE, code |-> c, out |-> <<>>] : c \in CodeSamples}

FnMoe ==
    /\ pc = "fn"
    /\ fn.op = "moe"
    /\ ~fn.done
    /\ fn' = [fn EXCEPT !.done = TRUE, !.out = MoeCode(fn.code)]
    /\ UNCHANGED <<script, table_list, pc, ti, gi, i, retries, attempts, slept, chunk_df, geo_gdf, store,
                   store0, written, log, exhausted, requested, answers, err>>

\* # --- Environment Setup ---.py, step 3:
\*   for estimate_col, moe_col in estimate_moe_pairs:
\*       df[estimate_col + "_SE"] = df[moe_col] / 1.645
\*       df[estimate_col + "_CV"] = (df[se_col] / df[estimate_col]) * 100
annotate_env(df, pairs) ==
    LET RECURSIVE Go(_, _)
        Go(d, k) ==
            IF k > Len(pairs) THEN d
            ELSE LET e == pairs[k][1]
                     m == pairs[k][2]
                     se == SetCol(d, e \o SUFFIX_SE,
                                  [r \in 1..NRows(d) |-> FDiv(d.rows[r][m], Z_SCORE)])
                 IN  Go(SetCol(se, e \o SUFFIX_CV,
                               [r \in 1..NRows(se) |->
                                   FMul(FDiv(se.rows[r][e \o SUFFIX_SE], se.rows[r][e]),
                                        HUNDRED)]),
                        k + 1)
    IN  Go(df, 1)

\* estimates and margins of error after numeric coercion
EstSamples == {VNaN, VNum(0, 1), VNum(1, 1), VNum(100, 1), VNum(1000000, 1)}
MoeSamples == {VNaN, VNum(0, 1), VNum(5, 1), VNum(329, 1), VNum(1645, 1)}

EST_COL == EstCode(T_B01003.id, 1)
MOE_COL == MoeCode(EST_COL)

\* a coerced frame of n records that all carry estimate e and margin m
PairFrame(n, e, m) ==
    [index |-> [k \in 1..n |-> VText(ZFill(DigitsOf(k), 2))], iname |-> COL_STATE,
     cols |-> <<EST_COL, MOE_COL, COL_NAME>>,
     rows |-> [k \in 1..n |->
                 [x \in {EST_COL, MOE_COL, COL_NAME} |->
                     IF x = EST_COL THEN e ELSE IF x = MOE_COL THEN m
                     ELSE VText(DigitsOf(k))]]]

AnnotateInputs ==
    {[op |-> "annotate", done |-> FALSE, df |-> PairFrame(n, e, m), env |-> EmptyDF,
      pipe |-> EmptyDF] : n \in {1, ScenarioRows}, e \in EstSamples, m \in MoeSamples}

\* both reliability computations applied to the same frame
FnAnnotate ==
    /\ pc = "fn"
    /\ fn.op = "annotate"
    /\ ~fn.done
    /\ fn' = [fn EXCEPT !.done = TRUE,
                        !.env = annotate_env(fn.df, <<<<EST_COL, MOE_COL>>>>),
                        !.pipe = AddCV(fn.df, <<EST_COL>>)]
    /\ UNCHANGED <<script, table_list, pc, ti, gi, i, retries, attempts, slept, chunk_df, geo_gdf, store,
                   store0, written, log, exhausted, requested, answers, err>>

\* cell values a response may carry in a variable column: integer text,
\* the source's annotation texts, the empty text and None
RawSamples == {VText(<<"1","0","0">>), VText(<<"0">>), VText(<<"-","5">>),
               VText(<<"N">>), VText(<<>>), VNone}
\* geometry values: a shape, or None for a unit without one
GeomSamples == {VGeom("A"), VNone}

\* a merged, not yet coerced frame of two records keyed by state
RawPairFrame(e1, e2, g) ==
    [index |-> <<VText(<<"0","1">>), VText(<<"0","2">>)>>, iname |-> COL_STATE,
     cols |-> <<EST_COL, MOE_COL, COL_NAME, COL_GEOMETRY>>,
     rows |-> [k \in 1..2 |->
                 [x \in {EST_COL, MOE_COL, COL_NAME, COL_GEOMETRY} |->
                     IF x = EST_COL THEN (IF k = 1 THEN e1 ELSE e2)
                     ELSE IF x = MOE_COL THEN (IF k = 1 THEN e2 ELSE e1)
                     ELSE IF x = COL_NAME THEN VText(<<"1","2">>)
                     ELSE g]]]

CoerceInputs ==
    {[op |-> "coerce", done |-> FALSE, df |-> RawPairFrame(e1, e2, g), out |-> EmptyDF] :
        e1 \in RawSamples, e2 \in RawSamples, g \in GeomSamples}

\* for col in df.columns: if col not in ("NAME", "geometry"):
\*     df[col] = pd.to_numeric(df[col], errors="coerce")
FnCoerce ==
    /\ pc = "fn"
    /\ fn.op = "coerce"
    /\ ~fn.done
    /\ fn' = [fn EXCEPT !.done = TRUE, !.out = CoerceNumeric(fn.df)]
    /\ UNCHANGED <<script, table_list, pc, ti, gi, i, retries, attempts, slept, chunk_df,
                   geo_gdf, store, store0, written, log, exhausted, requested, answers, err>>

\* the chunk loop of a unit applied to the raw frames of its chunks, in the
\* order given: the first frame sets up the result, every later one is
\* normalised and left-joined onto it (the notebook coerces at the end)
MergeAll(scr, geo, frames) ==
    LET first == IF scr = "acs5" THEN fetch_data_chunk(frames[1], geo)
                 ELSE nb_first_chunk(frames[1], geo)
        Later(k) == IF scr = "acs5" THEN fetch_data_chunk(frames[k], geo)
                    ELSE nb_later_chunk(frames[k], geo)
        RECURSIVE Go(_, _)
        Go(acc, k) ==
            IF acc.exc # "none" \/ k > Len(frames) THEN acc
            ELSE IF Later(k).exc # "none" THEN Later(k)
            ELSE Go(JoinLeft(acc.df, Later(k).df), k + 1)
        merged == Go(first, 2)
    IN  IF merged.exc # "none" THEN merged
        ELSE IF scr = "nb" THEN Ok(CoerceNumeric(merged.df)) ELSE merged

\* the variable groups of three chunks
GroupOf(k) == <<EstCode(T_B19013.id, k), MoeCode(EstCode(T_B19013.id, k))>>
\* the responses to the later chunks carry the dimension columns
LaterResponses == {r \in Responses : r.dims}

MergeInputs ==
    {[op |-> "merge", done |-> FALSE, scr |-> sc, geo |-> g, r1 |-> a, r2 |-> b, r3 |-> c,
      in_order |-> Raise("pending"), swapped |-> Raise("pending")] :
        sc \in {"acs5", "nb"}, g \in SeqSet(geographies), a \in Responses,
        b \in LaterResponses, c \in LaterResponses}

\* the chunks of a unit merged in request order, and with chunks 2 and 3
\* exchanged
FnMerge ==
    /\ pc = "fn"
    /\ fn.op = "merge"
    /\ ~fn.done
    /\ LET f1 == Download(GroupOf(1), fn.geo, fn.r1)
           f2 == Download(GroupOf(2), fn.geo, fn.r2)
           f3 == Download(GroupOf(3), fn.geo, fn.r3)
       IN  fn' = [fn EXCEPT !.done = TRUE,
                            !.in_order = MergeAll(fn.scr, fn.geo, <<f1, f2, f3>>),
                            !.swapped = MergeAll(fn.scr, fn.geo, <<f1, f3, f2>>)]
    /\ UNCHANGED <<script, table_list, pc, ti, gi, i, retries, attempts, slept, chunk_df,
                   geo_gdf, store, store0, written, log, exhausted, requested, answers, err>>

ChunkInputs ==
    {[op |-> "chunks", done |-> FALSE, vars |-> [k \in 1..n |-> k], at |-> 0,
      groups |-> <<>>] : n \in 0..MaxVars}

\* for i in range(0, len(vars_list), MAX_VARS_PER_CALL):
\*     chunk_vars = vars_list[i:i+MAX_VARS_PER_CALL]; one download per round
FnChunk ==
    /\ pc = "fn"
    /\ fn.op = "chunks"
    /\ ~fn.done
    /\ IF fn.at < Len(fn.vars)
       THEN fn' = [fn EXCEPT !.groups = Append(@, ChunkVars(fn.vars, fn.at)),
                             !.at = @ + MAX_VARS_PER_CALL]
       ELSE fn' = [fn EXCEPT !.done = TRUE]
    /\ UNCHANGED <<script, table_list, pc, ti, gi, i, retries, attempts, slept, chunk_df, geo_gdf, store,
                   store0, written, log, exhausted, requested, answers, err>>

\* the VARIABLE column of a table's catalog rows: n variables, listed with
\* their estimate codes only or with the estimate and the margin-of-error
\* code of each
MoeOfEst(c) == ReplaceTrailingE(c)
CatalogColumn(tbl, n, both) ==
    IF both
    THEN [k \in 1..(2 * n) |-> IF k % 2 = 1 THEN EstCode(tbl, (k + 1) \div 2)
                               ELSE MoeOfEst(EstCode(tbl, k \div 2))]
    ELSE [k \in 1..n |-> EstCode(tbl, k)]

VariableListInputs ==
    {[op |-> "variable_list", done |-> FALSE, scr |-> s, both |-> b,
      codes |-> CatalogColumn(t.id, n, b), out |-> <<>>] :
        s \in {"acs5", "nb"}, b \in BOOLEAN, t \in {T_B01003, T_B19013}, n \in 1..2}

\* the variable list of one table, as the table loop builds it
FnVariableList ==
    /\ pc = "fn"
    /\ fn.op = "variable_list"
    /\ ~fn.done
    /\ fn' = [fn EXCEPT !.done = TRUE, !.out = VariableList(fn.scr, fn.codes)]
    /\ UNCHANGED <<script, table_list, pc, ti, gi, i, retries, attempts, slept, chunk_df, geo_gdf, store,
                   store0, written, log, exhausted, requested, answers, err>>

InitFn ==
    /\ fn \in NormalizeInputs \cup MoeInputs \cup AnnotateInputs \cup ChunkInputs
               \cup CoerceInputs \cup MalformedInputs \cup MergeInputs
               \cup VariableListInputs
    /\ script = "acs5"
    /\ table_list = <<>>
    /\ pc = "fn"
    /\ ti = 1
    /\ gi = 1
    /\ i = 0
    /\ retries = 0
    /\ attempts = 0
    /\ slept = 0
    /\ chunk_df = Nothing
    /\ geo_gdf = Nothing
    /\ store = <<>>
    /\ store0 = <<>>
    /\ written = <<>>
    /\ log = {}
    /\ exhausted = {}
    /\ requested = <<>>
    /\ answers = <<>>
    /\ err = "none"

NextFn ==
    \/ FnNormalize
    \/ FnMoe
    \/ FnAnnotate
    \/ FnChunk
    \/ FnCoerce
    \/ FnNormalizeRaw
    \/ FnMerge
    \/ FnVariableList

SpecFn == InitFn /\ [][NextFn]_vars

\* ------------------------------------------------------------------------
\* Properties
\* ------------------------------------------------------------------------
UnitName(u) == TargetName(script, Tables[u[1]].id, geographies[u[2]])

\* C1: a unit with a chunk whose three attempts all timed out is aborted:
\* nothing is written for it, so the dataset persisted under its name is
\* still the one that was there when the run started.
C1_ExhaustedUnitNotWritten ==
    \A u \in exhausted : store[UnitName(u)] = store0[UnitName(u)]

\* C2: a failure of one unit does not end the run: the run stops only once
\* the table loop has gone past every unit.
C2_RunStopsOnlyAfterLastUnit ==
    pc \in {"done", "crashed"} => ti > Len(Tables)

RECURSIVE Flatten(_)
Flatten(gs) == IF gs = <<>> THEN <<>> ELSE Head(gs) \o Flatten(Tail(gs))

RightFrame == IF script = "acs5" THEN chunk_df.df
              ELSE nb_later_chunk(chunk_df.df, CurGeo).df

\* a merge step that left-joined a later chunk
JoinedStep == pc = "merge" /\ geo_gdf.some /\ pc' = "chunk"

CvEnv(k) == fn.env.rows[k][EST_COL \o SUFFIX_CV]
CvPipe(k) == fn.pipe.rows[k][EST_COL \o SUFFIX_CV]

\* C5: for every record whose estimate is zero or missing, the computed
\* coefficient of variation is missing (NaN), never infinity.
C5_NoEstimateNoCV ==
    (fn.op = "annotate" /\ fn.done) =>
        \A k \in 1..NRows(fn.df) :
            (fn.df.rows[k][EST_COL].k = "nan" \/ fn.df.rows[k][EST_COL] = VNum(0, 1)) =>
                CvEnv(k) = VNaN /\ CvPipe(k) = VNaN

\* C6: the margin-of-error code derived from an estimate code is the same
\* code with only its last character changed, from E to M.
C6_OnlyTrailingCharChanges ==
    (fn.op = "moe" /\ fn.done) =>
        /\ Len(fn.out) = Len(fn.code)
        /\ fn.out[Len(fn.out)] = "M"
        /\ \A k \in 1..(Len(fn.code) - 1) : fn.out[k] = fn.code[k]

KeyOf(out) ==
    IF out.df.iname # <<>> THEN out.df.index[1].s
    ELSE ColVals(out.df, KeyCol(fn.geo))[1].s
RECURSIVE SumWidths(_)
SumWidths(dims) == IF dims = <<>> THEN 0 ELSE Width(Head(dims)) + SumWidths(Tail(dims))
\* the segments of the documented widths, zeros first, concatenated in order
RECURSIVE Padded(_, _)
Padded(dims, raw) ==
    IF dims = <<>> THEN <<>>
    ELSE Zeros(Width(Head(dims)) - Len(raw[Head(dims)])) \o raw[Head(dims)]
         \o Padded(Tail(dims), raw)
FitsWidths(geo, raw) ==
    \A k \in 1..Len(KeyDims(geo)) : Len(raw[KeyDims(geo)[k]]) <= Width(KeyDims(geo)[k])

GeoKeys(df, geo) == IF df.iname # <<>> THEN df.index ELSE ColVals(df, KeyCol(geo))
NoDuplicates(q) == \A a, b \in 1..Len(q) : q[a] = q[b] => a = b

JustWritten == pc = "geo" /\ gi > 1
WrittenName == TargetName(script, CurTable.id, geographies[gi - 1])
WrittenData == Outgoing(script, geo_gdf.df, geographies[gi - 1])

\* C10: a write replaces the destination of that name by the dataset
\* written (nothing of the previous content stays), so writing the same
\* dataset once more leaves the sink as it is.
C10_WriteReplaces ==
    JustWritten =>
        /\ store[WrittenName] = WrittenData
        /\ SinkWrite(store, WrittenName, WrittenData) = store

\* a unit was written over a dataset that an earlier run had left
C10_Witness ==
    /\ JustWritten
    /\ store0[WrittenName].some
    /\ NRows(store[WrittenName].df) = 2

\* ------------------------------------------------------------------------
\* C11
\* ------------------------------------------------------------------------
InRetryLoop == pc \in {"try", "r_try"}
\* the delay of the script that runs
Delay == WaitOf(script)

\* C11: each chunk request is attempted at most 3 times; a request is sent
\* only inside the retry loop (never after the successful attempt, which
\* leaves the loop), and only when every earlier attempt of the chunk timed
\* out and was followed by the fixed delay; the retry loop always ends.
C11_RetryBudgetDelayTermination ==
    /\ [](attempts <= 3 /\ attempts <= RETRY_LIMIT)
    /\ [][/\ attempts' = attempts + 1 =>
               /\ InRetryLoop
               /\ attempts < RETRY_LIMIT
               /\ slept = Delay * attempts
          /\ (InRetryLoop /\ InRetryLoop' /\ attempts' = attempts + 1) =>
               slept' = slept + Delay
          /\ (~InRetryLoop /\ InRetryLoop') => (attempts' = 0 /\ slept' = 0)]_vars
    /\ (InRetryLoop ~> ~InRetryLoop)

\* the third attempt of a chunk was answered, after two timeouts and two
\* delays
C11_Witness ==
    /\ pc = "merge"
    /\ script = "acs5"
    /\ attempts = RETRY_LIMIT
    /\ slept = 2 * WAIT_BETWEEN_RETRIES
    /\ chunk_df.some
    /\ exhausted = {}

\* ------------------------------------------------------------------------
\* C12
\* ------------------------------------------------------------------------
WrittenGeo == geographies[gi - 1]
PartitionRule ==
    /\ (store[WrittenName].part = <<COL_STATE>>) <=> (WrittenGeo \in {"tract", "county"})
    /\ (store[WrittenName].part = <<>>) <=> (WrittenGeo \in {"zcta", "state"})
    /\ store[WrittenName].part # <<>> => COL_STATE \in ColSet(store[WrittenName].df)

EmptyTables ==
    {k \in 1..Len(table_list) : VariablesAll(script, table_list[k]) = <<>>}
InUnit == pc \in {"geo", "chunk", "try", "merge", "cv", "write"}
\* nothing is requested and nothing is written for the table, and no
\* exception is raised while the loop is at it
SkippedQuietly(k) ==
    /\ \A g \in 1..Len(geographies) :
         store[TargetName(script, table_list[k].id, geographies[g])]
             = store0[TargetName(script, table_list[k].id, geographies[g])]
    /\ (InUnit \/ pc = "crashed") => CurTable # table_list[k]
\* the run went on to the units of another table, or to its end
RunWentOn == pc = "done" \/ InUnit

\* C13: a curated table that resolves to zero variables is skipped with a
\* warning and without an error: no request is issued and nothing is
\* written for any of its levels, and once the run has gone on past it the
\* skip message for it has been printed.
C13_EmptyTableSkippedWithWarning ==
    \A k \in EmptyTables :
        /\ SkippedQuietly(k)
        /\ RunWentOn => table_list[k].id \in log

\* the part of C13 that both scripts meet: no request, no write, no error
C13_EmptyTableSkippedQuietly ==
    \A k \in EmptyTables : SkippedQuietly(k)

\* ------------------------------------------------------------------------
\* C14
\* ------------------------------------------------------------------------
\* what the coercion has to give for each raw value: the number an integer
\* text denotes, missing for everything that does not parse
CoercedValue(v) ==
    CASE v = VText(<<"1","0","0">>) -> VNum(100, 1)
      [] v = VText(<<"0">>) -> VNum(0, 1)
      [] v = VText(<<"-","5">>) -> VNum(-5, 1)
      [] v = VText(<<"N">>) -> VNaN
      [] v = VText(<<>>) -> VNaN
      [] v = VNone -> VNaN
PassThrough == {COL_NAME, COL_GEOMETRY}

\* C14: the coercion of the merged frame turns every column other than
\* NAME and geometry into numbers, a value that does not parse becomes
\* missing (not zero), no row is dropped or added, nothing is raised, and
\* the values of NAME and geometry (a numeric-looking name included) stay
\* as they were.
C14_CoercionKeepsRowsAndPassthrough ==
    (fn.op = "coerce" /\ fn.done) =>
        /\ NRows(fn.out) = NRows(fn.df)
        /\ fn.out.index = fn.df.index
        /\ fn.out.cols = fn.df.cols
        /\ \A k \in 1..NRows(fn.df) : \A x \in ColSet(fn.df) :
             IF x \in PassThrough THEN fn.out.rows[k][x] = fn.df.rows[k][x]
             ELSE fn.out.rows[k][x] = CoercedValue(fn.df.rows[k][x])

\* a frame with an unparsable estimate next to a zero estimate was coerced:
\* the first is missing, the second is zero, both rows are there
C14_Witness ==
    /\ fn.op = "coerce"
    /\ fn.done
    /\ fn.df.rows[1][EST_COL] = VText(<<"N">>)
    /\ fn.df.rows[2][EST_COL] = VText(<<"0">>)
    /\ fn.out.rows[1][EST_COL] = VNaN
    /\ fn.out.rows[2][EST_COL] = VNum(0, 1)
    /\ NRows(fn.out) = 2

\* ------------------------------------------------------------------------
\* C15
\* ------------------------------------------------------------------------
\* the defect is in a field the level requires
RequiredFieldDefect == fn.field \in SeqSet(KeyDims(fn.geo))
Rejected(out) == out.exc = "MalformedGeographyError" /\ out.df = EmptyDF

\* C15: normalize fails with MalformedGeographyError and produces no key
\* whenever a dimension field the level requires is absent from the raw
\* record or is not a number.
C15_MalformedGeographyRejected ==
    (fn.op = "normalize_raw" /\ fn.done /\ RequiredFieldDefect) => Rejected(fn.out)

\* the weaker reading, failure of any kind: also violated, by the
\* non-numeric field, for which a key is built
C15_MalformedGeographyFails ==
    (fn.op = "normalize_raw" /\ fn.done /\ RequiredFieldDefect) => fn.out.exc # "none"

\* what does hold: an absent required field stops the normalisation with
\* the lookup error of the missing column, and no key is produced
C15_AbsentFieldRaisesLookupError ==
    (fn.op = "normalize_raw" /\ fn.done /\ RequiredFieldDefect /\ fn.defect = "absent") =>
        /\ fn.out.exc = (IF fn.geo = "zcta" THEN "IndexError" ELSE "KeyError")
        /\ fn.out.df = EmptyDF

\* ------------------------------------------------------------------------
\* C16
\* ------------------------------------------------------------------------
\* out has the rows, the key and every cell of df, and exactly the columns
\* added on top
AddsExactly(df, out, added) ==
    /\ out.index = df.index
    /\ out.iname = df.iname
    /\ NRows(out) = NRows(df)
    /\ SubSeq(out.cols, 1, Len(df.cols)) = df.cols
    /\ ColSet(out) = ColSet(df) \cup added
    /\ added \cap ColSet(df) = {}
    /\ \A k \in 1..NRows(df) : \A x \in ColSet(df) : out.rows[k][x] = df.rows[k][x]

\* C16: the reliability step of the pipeline only adds columns: for the
\* estimate column with its paired margin-of-error column it adds one
\* standard-error column and one coefficient-of-variation column, and it
\* leaves the rows, the geo key, the passthrough column and every estimate
\* and margin-of-error value as they were.
C16_AddsSeAndCvColumnsOnly ==
    (fn.op = "annotate" /\ fn.done) =>
        AddsExactly(fn.df, fn.pipe, {EST_COL \o SUFFIX_SE, EST_COL \o SUFFIX_CV})

\* what the pipeline scripts do: the CV column is the only one added
C16_PipelineAddsCvColumnOnly ==
    (fn.op = "annotate" /\ fn.done) =>
        AddsExactly(fn.df, fn.pipe, {EST_COL \o SUFFIX_CV})

\* what the Environment Setup script does: SE and CV columns are added
C16_EnvironmentAddsSeAndCv ==
    (fn.op = "annotate" /\ fn.done) =>
        AddsExactly(fn.df, fn.env, {EST_COL \o SUFFIX_SE, EST_COL \o SUFFIX_CV})

\* ------------------------------------------------------------------------
\* C17
\* ------------------------------------------------------------------------
ReferenceWritten == pc = "end"
ReferenceRows == store[REFERENCE_NAME].df.rows
RefRow(k) == ReferenceRows[k]
RefCount == Len(ReferenceRows)

\* C17: the reference dataset has the four columns; every curated table
\* appears in it with its description (with missing variable code and
\* label when it has no variables); every catalog variable of a curated
\* table appears with that table's description; no variable of a table
\* that is not curated appears.
C17_ReferenceCoversEveryCuratedTable ==
    ReferenceWritten =>
        /\ store[REFERENCE_NAME].df.cols
              = <<COL_TABLE, COL_TABLE_DESCRIPTION, COL_VARIABLE_CODE, COL_VARIABLE_LABEL>>
        /\ \A t \in 1..Len(table_list) :
             /\ \E k \in 1..RefCount :
                  /\ RefRow(k)[COL_TABLE] = VText(table_list[t].id)
                  /\ RefRow(k)[COL_TABLE_DESCRIPTION] = VText(DescriptionOf(table_list[t].id))
                  /\ table_list[t].nest = 0 =>
                       /\ RefRow(k)[COL_VARIABLE_CODE] = VNone
                       /\ RefRow(k)[COL_VARIABLE_LABEL] = VNone
             /\ \A n \in 1..table_list[t].nest :
                  \E k \in 1..RefCount :
                      /\ RefRow(k)[COL_VARIABLE_CODE] = VText(EstCode(table_list[t].id, n))
                      /\ RefRow(k)[COL_TABLE_DESCRIPTION]
                            = VText(DescriptionOf(table_list[t].id))
        /\ \A k \in 1..RefCount : RefRow(k)[COL_TABLE] # VText(T_C17002.id)

\* what the code builds: one row per catalog variable of a curated table,
\* with the table's description and the variable's label, and nothing
\* else; a curated table without variables has no row
C17_ReferenceIsOneRowPerCuratedVariable ==
    ReferenceWritten =>
        /\ RefCount = Len(filtered_vars_df(table_list))
        /\ \A k \in 1..RefCount :
             LET v == filtered_vars_df(table_list)[k]
             IN  /\ v.table \in curated_table_ids(table_list)
                 /\ RefRow(k)[COL_TABLE] = VText(v.table)
                 /\ RefRow(k)[COL_TABLE_DESCRIPTION] = VText(DescriptionOf(v.table))
                 /\ RefRow(k)[COL_VARIABLE_CODE] = VText(v.variable)
                 /\ RefRow(k)[COL_VARIABLE_LABEL] = VText(LabelOf(v.variable))
        /\ \A t \in 1..Len(table_list) :
             table_list[t].nest = 0 =>
                 \A k \in 1..RefCount : RefRow(k)[COL_TABLE] # VText(table_list[t].id)

\* ------------------------------------------------------------------------
\* C18
\* ------------------------------------------------------------------------
NChunks(vs) == (Len(vs) + MAX_VARS_PER_CALL - 1) \div MAX_VARS_PER_CALL

\* the dataset that a unit's own variable list and the responses to its own
\* requests determine: every chunk normalised, the later chunks joined onto
\* the first, coerced, with the CV columns, as handed to the sink
UnitResult(scr, t, geo, ans) ==
    LET vs == VariablesAll(scr, t)
        Frame(k) == Download(ChunkVars(vs, MAX_VARS_PER_CALL * (k - 1)), geo, ans[k])
        First == IF scr = "acs5" THEN fetch_data_chunk(Frame(1), geo).df
                 ELSE nb_first_chunk(Frame(1), geo).df
        Later(k) == IF scr = "acs5" THEN fetch_data_chunk(Frame(k), geo).df
                    ELSE nb_later_chunk(Frame(k), geo).df
        RECURSIVE MergeFrom(_, _)
        MergeFrom(acc, k) == IF k > Len(ans) THEN acc
                             ELSE MergeFrom(JoinLeft(acc, Later(k)).df, k + 1)
        merged == MergeFrom(First, 2)
        coerced == IF scr = "nb" THEN CoerceNumeric(merged) ELSE merged
    IN  Outgoing(scr, AddCV(coerced, EstVars(scr, t)), geo)

OwnResult ==
    /\ Len(answers) = NChunks(variables_all)
    /\ store[WrittenName] = UnitResult(script, CurTable, geographies[gi - 1], answers)

\* C18: the dataset persisted for a unit is determined by the unit's own
\* variable list and the responses to the unit's own requests: it is what
\* those alone give, whatever was processed before.
C18_UnitDatasetFromOwnResponsesOnly ==
    JustWritten => OwnResult

\* the notebook meets it: df_full and chunk_df are locals of fetch_geo_data
C18_NotebookUnitDatasetFromOwnResponses ==
    (JustWritten /\ script = "nb") => OwnResult

\* and so does the acs5 script for a unit none of whose chunks ran out of
\* retries
C18_Acs5UnitDatasetWhenNothingExhausted ==
    (JustWritten /\ script = "acs5" /\ <<ti, gi - 1>> \notin exhausted) => OwnResult

\* ------------------------------------------------------------------------
\* C19
\* ------------------------------------------------------------------------
\* the same rows under the same keys, the same columns, the same value in
\* every cell
SameRowsAndValues(a, b) ==
    /\ a.index = b.index
    /\ a.iname = b.iname
    /\ ColSet(a) = ColSet(b)
    /\ NRows(a) = NRows(b)
    /\ \A k \in 1..NRows(a) : \A x \in ColSet(a) : a.rows[k][x] = b.rows[k][x]

EnvironmentErrors == {"ReadTimeout", "KeyError", "IndexError", "WriteError"}

\* the run is over, by the end of its loops or by an uncaught exception
RunEnded == pc \in {"done", "end", "crashed"}

\* the run is over and nothing of its surroundings failed: no unit ran out
\* of retries and the run was not ended by one of those errors
RunWithoutFailures == RunEnded /\ exhausted = {} /\ err \notin EnvironmentErrors

\* the loops came to their end and no unit ran out of retries
LoopsCompleted == pc \in {"done", "end"} /\ exhausted = {}

\* the units of the run: a curated table with a non-empty variable list and
\* a geography level
RunUnits ==
    {<<t, g>> : t \in {k \in 1..Len(table_list) :
                            VariablesAll(script, table_list[k]) # <<>>},
                g \in 1..Len(geographies)}

RunUnitName(u) == TargetName(script, table_list[u[1]].id, geographies[u[2]])

WritesTo(name) == Cardinality({k \in 1..Len(written) : written[k] = name})

\* every group of the unit has been requested, answered and merged, and
\* the CV column of every estimate with its margin is in the frame
UnitComplete ==
    /\ pc = "write"
    /\ geo_gdf.some
    /\ i >= Len(variables_all)
    /\ Len(requested) = NChunks(variables_all)
    /\ Len(answers) = NChunks(variables_all)
    /\ SeqSet(variables_all) \subseteq ColSet(geo_gdf.df)
    /\ \A k \in 1..Len(table_vars) :
            (table_vars[k] \o SUFFIX_CV) \in ColSet(geo_gdf.df)

\* C20: in a run without failures every unit (curated table with
\* variables, geography level) is written exactly once and nothing else is
\* written by the loops; a unit is written only once all its groups are
\* fetched and merged and its CV columns computed, under the name its
\* table code and level give; and two distinct units never share a name.
C20_OneWritePerUnitUnderItsOwnName ==
    /\ [](RunWithoutFailures =>
            /\ \A u \in RunUnits : WritesTo(RunUnitName(u)) = 1
            /\ Len(written) = Cardinality(RunUnits))
    /\ [](Cardinality({RunUnitName(u) : u \in RunUnits}) = Cardinality(RunUnits))
    /\ [][(written' # written /\ exhausted = {}) =>
            /\ UnitComplete
            /\ written' = Append(written, TargetName(script, CurTable.id, CurGeo))]_vars

\* what the code does give: when the loops come to their end every unit
\* has been written exactly once, each after its groups and CV columns,
\* under names that differ from unit to unit. A table of more than
\* MAX_VARS_PER_CALL variables never gets there: the join of its second
\* group raises ValueError (NAME and geometry are in both frames).
C20_OneWritePerUnitWhenLoopsComplete ==
    /\ [](LoopsCompleted =>
            /\ \A u \in RunUnits : WritesTo(RunUnitName(u)) = 1
            /\ Len(written) = Cardinality(RunUnits))
    /\ [](Cardinality({RunUnitName(u) : u \in RunUnits}) = Cardinality(RunUnits))
    /\ [][(written' # written /\ exhausted = {}) =>
            /\ UnitComplete
            /\ written' = Append(written, TargetName(script, CurTable.id, CurGeo))]_vars

\* every table whose loops complete has at most MAX_VARS_PER_CALL variables
C20_CompletedTablesHaveOneGroup ==
    LoopsCompleted =>
        \A k \in 1..Len(table_list) : NChunks(VariablesAll(script, table_list[k])) <= 1

\* ------------------------------------------------------------------------
\* C21
\* ------------------------------------------------------------------------
\* the estimate codes among the catalog codes of a table
EstimatesOf(codes) == SelectSeq(codes, LAMBDA c : c[Len(c)] = "E")

Occurrences(q, x) == Cardinality({k \in 1..Len(q) : q[k] = x})

\* the list holds every estimate code once, the margin-of-error code of
\* every estimate once, and nothing else
EstimatesAndOneMoeEach(codes, out) ==
    LET est == EstimatesOf(codes)
    IN  /\ \A k \in 1..Len(est) :
              /\ Occurrences(out, est[k]) = 1
              /\ Occurrences(out, MoeOfEst(est[k])) = 1
        /\ \A k \in 1..Len(out) :
              \E j \in 1..Len(est) : out[k] \in {est[j], MoeOfEst(est[j])}
        /\ NoDuplicates(out)

\* C21: the variable list built for a table consists of the table's
\* estimate codes and exactly one margin-of-error code per estimate, and no
\* code occurs twice in it, whether the catalog lists the estimate codes
\* only or both the E and the M codes of the table.
C21_EstimatesAndOneMoeEachNoDuplicates ==
    (fn.op = "variable_list" /\ fn.done) =>
        EstimatesAndOneMoeEach(fn.codes, fn.out)

\* what the code does give: the list is as stated when the catalog lists
\* the estimate codes only (and the table code has no letter E)
C21_ListFromEstimateOnlyCatalog ==
    (fn.op = "variable_list" /\ fn.done /\ ~fn.both) =>
        EstimatesAndOneMoeEach(fn.codes, fn.out)

\* and with the M codes listed too, every M code comes three times: once
\* as a catalog row and twice as the code derived from the E and the M row
C21_ListedMoeComesThreeTimes ==
    (fn.op = "variable_list" /\ fn.done /\ fn.both) =>
        \A c \in {fn.codes[k] : k \in 1..Len(fn.codes)} :
            Occurrences(fn.out, c) = (IF c[Len(c)] = "M" THEN 3 ELSE 1)

\* ------------------------------------------------------------------------
\* C22
\* ------------------------------------------------------------------------
\* the normalized geo key of a returned record at a level: its dimension
\* codes zero-padded to their widths and concatenated, as text
NormalKey(r, geo) ==
    VText(Padded(KeyDims(geo),
                 [d \in {"state", "county", "tract", "zcta"} |-> RawDim(r, d)]))

\* the frame is indexed by the key of the level and the label of every row
\* is the normalized key of the record it came from
KeyedBy(df, geo, recs) ==
    /\ df.iname = KeyCol(geo)
    /\ NRows(df) = Len(recs)
    /\ \A k \in 1..Len(recs) : df.index[k] = NormalKey(recs[k], geo)

\* the geo key a persisted dataset holds for its row k: the index label of
\* a frame written with its index, the key column otherwise
PersistedKey(ds, geo, k) ==
    IF ds.df.iname = KeyCol(geo) THEN ds.df.index[k]
    ELSE IF KeyCol(geo) \in ColSet(ds.df) THEN ds.df.rows[k][KeyCol(geo)]
    ELSE VNone

\* the persisted dataset holds the normalized key of every record and no
\* positional index in its place
PersistsKeys(ds, geo, recs) ==
    /\ ds.some
    /\ NRows(ds.df) = Len(recs)
    /\ \A k \in 1..Len(recs) : PersistedKey(ds, geo, k) = NormalKey(recs[k], geo)
    /\ COL_INDEX \notin ColSet(ds.df)

\* the unit under way has merged its first group and none of its groups
\* ran out of retries
FirstChunkMerged ==
    /\ pc \in {"chunk", "try", "merge", "cv", "write"}
    /\ geo_gdf.some
    /\ answers # <<>>
    /\ <<ti, gi>> \notin exhausted

\* a unit none of whose groups ran out of retries has just been written
WrittenFromOwnAnswers == JustWritten /\ answers # <<>> /\ <<ti, gi - 1>> \notin exhausted

\* C22: at each of the four levels the record set is keyed by the
\* normalized geo key from the first chunk onwards, and the key persisted
\* for every row is the zero-padded fixed-width text of the row's
\* dimensions: no positional index takes its place and it does not go
\* through the numeric coercion.
C22_KeyedAndPersistedByNormalKey ==
    /\ FirstChunkMerged => KeyedBy(geo_gdf.df, CurGeo, answers[1].rows)
    /\ WrittenFromOwnAnswers =>
           PersistsKeys(store[WrittenName], geographies[gi - 1], answers[1].rows)

\* what the code does give: the acs5 script at every level, and the
\* notebook at the zcta, county and state levels
C22_KeyedAndPersistedExceptNotebookTract ==
    /\ (FirstChunkMerged /\ ~(script = "nb" /\ CurGeo = "tract")) =>
           KeyedBy(geo_gdf.df, CurGeo, answers[1].rows)
    /\ (WrittenFromOwnAnswers /\ ~(script = "nb" /\ geographies[gi - 1] = "tract")) =>
           PersistsKeys(store[WrittenName], geographies[gi - 1], answers[1].rows)

\* the notebook at the tract level: the frame keeps its positional index,
\* which is persisted as the column "index", and the GEOID column is
\* persisted as the number the coercion made of it
C22_NotebookTractKeyCoerced ==
    (WrittenFromOwnAnswers /\ script = "nb" /\ geographies[gi - 1] = "tract") =>
        /\ COL_INDEX \in ColSet(store[WrittenName].df)
        /\ \A k \in 1..Len(answers[1].rows) :
              /\ store[WrittenName].df.rows[k][COL_INDEX] = PosLabel(k - 1)
              /\ store[WrittenName].df.rows[k][COL_GEOID]
                   = ToNumeric(NormalKey(answers[1].rows[k], "tract"))
              /\ store[WrittenName].df.rows[k][COL_GEOID]
                   # NormalKey(answers[1].rows[k], "tract")
====
